---- MODULE Spec2Model ----
(***************************************************************************)
(* AutoModeService: the orchestrator that runs board features through the  *)
(* agent.  The state is the two maps of the service (runningFeatures and   *)
(* projectLoops), the feature store and the context files it writes        *)
(* through its collaborators, and the position of every async method that  *)
(* is suspended at an await.  One step of the model is one run of the      *)
(* event loop: the code between two awaits of one method, together with    *)
(* the outcome of the collaborator call it was awaiting.                   *)
(***************************************************************************)
EXTENDS Integers, FiniteSets, Sequences, TLC

(* ------------------------------ bounds -------------------------------- *)

\* Number of async methods (pipelines, reverts, merges) started in one run.
MaxSpawn == 2

\* Number of calls of the service's methods made from outside in one run.
MaxCalls == 2

\* Number of poll steps of one project that may await loadFeatures at once.
MaxPolls == 2

(* ----------------------------- the world ------------------------------ *)

Projects == {"p1", "p2"}

\* The features of the store, in the store's listed order; all of project p1.
FeatureList == <<"f1", "f2">>

Features == {FeatureList[i] : i \in 1..Len(FeatureList)}

ProjectOf(f) == "p1"

\* feature.skipTests, a field of the stored feature no method here changes.
SkipTests(f) == f = "f2"

\* `project-analysis-${Date.now()}`: the key analyzeProject registers under.
AnalysisId == "analysis"

Keys == Features \cup {AnalysisId}

\* this.maxConcurrency / `maxConcurrency || 3`
DefaultMaxConcurrency == 3

\* maxAttempts of the auto-retry loop of resumeFeature
maxAttempts == 3

\* The maxConcurrency arguments given to start; 0 stands for undefined.
MaxConcurrencyInputs == {0, 1}

\* The values availableSlots takes when a poll step goes on to loadFeatures.
SlotCounts == 1..DefaultMaxConcurrency

Statuses == {"backlog", "in_progress", "waiting_approval", "verified"}

VARIABLES
  runningFeatures,  \* featureId -> execution context (NoExec: no entry)
  projectLoops,     \* projectPath -> loop state (NoLoop: no entry)
  features,         \* the feature store: status, worktree binding, error
  context,          \* the context file of each feature
  procs,            \* token -> the async method suspended at an await
  polls,            \* checkAndStartFeaturesForProject calls awaiting loadFeatures
  spawned,          \* number of tokens handed out
  calls,            \* number of calls made from outside
  result,           \* what the call that ended in this step gave its caller
  events            \* the events sent to the renderer in this step

vars == <<runningFeatures, projectLoops, features, context, procs, polls,
          spawned, calls, result, events>>

Tokens == 1..MaxSpawn

NoExec == [token |-> 0, projectPath |-> "none"]

NoLoop == [known |-> FALSE, isRunning |-> FALSE, interval |-> FALSE,
           maxConcurrency |-> 0]

NoProc == [kind |-> "none", key |-> "none", proj |-> "none", pc |-> "none",
           useWorktrees |-> FALSE, passes |-> FALSE, attempts |-> 0,
           isolated |-> FALSE, ctxOk |-> FALSE, aborted |-> FALSE]

NoResult == [op |-> "none", key |-> "none", outcome |-> "none",
             passes |-> FALSE, ctxOk |-> FALSE, statusOk |-> FALSE, count |-> 0]

NoFile == {"<no file>"}

(* ------------------------- registry helpers --------------------------- *)

\* this.runningFeatures.has(featureId)
Has(featureId) == runningFeatures[featureId] # NoExec

\* getRunningFeaturesForProject
getRunningFeaturesForProject(projectPath) ==
  {k \in Keys : runningFeatures[k].projectPath = projectPath}

\* getRunningCountForProject
getRunningCountForProject(projectPath) ==
  Cardinality({k \in Keys : /\ runningFeatures[k] # NoExec
                            /\ runningFeatures[k].projectPath = projectPath})

\* createExecutionContext + this.runningFeatures.set(featureId, execution)
SetRunning(rf, featureId, projectPath, t) ==
  [rf EXCEPT ![featureId] =
     [token |-> t, projectPath |-> projectPath]]

\* this.runningFeatures.delete(featureId)
DeleteRunning(rf, featureId) == [rf EXCEPT ![featureId] = NoExec]

\* execution.isActive(): this.runningFeatures.has(featureId)
isActive(t) == procs[t] # NoProc /\ Has(procs[t].key)

\* getStatus({projectPath})
getStatus(projectPath) ==
  [autoLoopRunning |-> projectLoops[projectPath].isRunning,
   runningFeatures |-> getRunningFeaturesForProject(projectPath),
   runningCount |-> getRunningCountForProject(projectPath)]

(* ----------------------- collaborators' effects ----------------------- *)

\* featureLoader.updateFeatureStatus(id, status, projectPath, summary, error)
updateFeatureStatus(fs, id, status, hasError) ==
  [fs EXCEPT ![id].status = status, ![id].error = hasError]

\* featureLoader.updateFeatureWorktree(id, projectPath, worktreePath, branch)
updateFeatureWorktree(fs, id, bound) == [fs EXCEPT ![id].worktree = bound]

\* contextManager.writeToContextFile(projectPath, featureId, text): append
writeToContextFile(cx, id, marker) ==
  [cx EXCEPT ![id] = (cx[id] \ NoFile) \cup {marker}]

\* contextManager.deleteContextFile(projectPath, featureId)
deleteContextFile(cx, id) == [cx EXCEPT ![id] = NoFile]

(* ------------------------------- Init --------------------------------- *)

Init ==
  /\ runningFeatures = [k \in Keys |-> NoExec]
  /\ projectLoops = [p \in Projects |-> NoLoop]
  /\ features = [f \in Features |->
                   [status |-> "backlog", worktree |-> FALSE, error |-> FALSE]]
  /\ context = [f \in Features |-> NoFile]
  /\ procs = [t \in Tokens |-> NoProc]
  /\ polls = [p \in Projects |-> [n \in SlotCounts |-> 0]]
  /\ spawned = 0
  /\ calls = 0
  /\ result = NoResult
  /\ events = {}

(* --------------------------- shared pieces ---------------------------- *)

Ev(type, key) == <<type, key>>

\* A call of one of the service's methods from outside.
Called == calls < MaxCalls /\ calls' = calls + 1

\* The frame of a step that touches neither the store nor the loops.
Quiet == UNCHANGED <<projectLoops, features, context, polls>>

\* `throw new Error(`Feature ${featureId} is already running`)`
Reject(op, key) ==
  /\ result' = [NoResult EXCEPT !.op = op, !.key = key,
                                !.outcome = "already_running"]
  /\ events' = {}
  /\ UNCHANGED <<runningFeatures, procs, spawned>>
  /\ Quiet

NewProc(kind, key, proj, pc, useWorktrees) ==
  [NoProc EXCEPT !.kind = kind, !.key = key, !.proj = proj, !.pc = pc,
                 !.useWorktrees = useWorktrees]

\* An entry point registers its execution and runs to its first await.
Register(kind, key, proj, pc, useWorktrees) ==
  /\ spawned < MaxSpawn
  /\ spawned' = spawned + 1
  /\ runningFeatures' = SetRunning(runningFeatures, key, proj, spawned + 1)
  /\ procs' = [procs EXCEPT ![spawned + 1] =
                 NewProc(kind, key, proj, pc, useWorktrees)]

(* ---------------------------- entry points ---------------------------- *)

\* runFeature without its check of the registry.
runFeatureNeverRunning(featureId) == FALSE

runFeatureAlreadyRunning(featureId) == Has(featureId)

runFeature(projectPath, featureId, useWorktrees) ==
  /\ Called
  /\ IF runFeatureAlreadyRunning(featureId)
     THEN Reject("runFeature", featureId)
     ELSE /\ Register("runFeature", featureId, projectPath, "loadFeatures",
                      useWorktrees)
          /\ result' = NoResult
          /\ events' = {}
          /\ Quiet

verifyFeatureAlreadyRunning(featureId) == Has(featureId)

verifyFeature(projectPath, featureId) ==
  /\ Called
  /\ IF verifyFeatureAlreadyRunning(featureId)
     THEN Reject("verifyFeature", featureId)
     ELSE /\ Register("verifyFeature", featureId, projectPath, "loadFeatures",
                      FALSE)
          /\ result' = NoResult
          /\ events' = {}
          /\ Quiet

resumeFeatureAlreadyRunning(featureId) == Has(featureId)

resumeFeature(projectPath, featureId) ==
  /\ Called
  /\ IF resumeFeatureAlreadyRunning(featureId)
     THEN Reject("resumeFeature", featureId)
     ELSE /\ Register("resumeFeature", featureId, projectPath, "loadFeatures",
                      FALSE)
          /\ result' = NoResult
          /\ events' = {}
          /\ Quiet

followUpFeatureAlreadyRunning(featureId) == Has(featureId)

\* Registers, starts runFollowUpWork without awaiting it and returns at once.
followUpFeature(projectPath, featureId) ==
  /\ Called
  /\ IF followUpFeatureAlreadyRunning(featureId)
     THEN Reject("followUpFeature", featureId)
     ELSE /\ Register("runFollowUpWork", featureId, projectPath, "loadFeatures",
                      FALSE)
          /\ result' = [NoResult EXCEPT !.op = "followUpFeature",
                          !.key = featureId, !.outcome = "returned"]
          /\ events' = {}
          /\ Quiet

\* commitFeature has no "already running" check: it sets the entry as it is.
commitFeature(projectPath, featureId) ==
  /\ Called
  /\ Register("commitFeature", featureId, projectPath, "loadFeatures", FALSE)
  /\ result' = NoResult
  /\ events' = {}
  /\ Quiet

analyzeProjectAlreadyRunning(analysisId) == Has(analysisId)

analyzeProject(projectPath, analysisId) ==
  /\ Called
  /\ IF analyzeProjectAlreadyRunning(analysisId)
     THEN Reject("analyzeProject", analysisId)
     ELSE /\ Register("analyzeProject", analysisId, projectPath,
                      "runProjectAnalysis", FALSE)
          /\ result' = NoResult
          /\ events' = {Ev("auto_mode_feature_start", analysisId)}
          /\ Quiet

\* execution.abortController is set by the executor for the time of its call.
abortControllerSet(t) ==
  procs[t].pc \in {"implementFeature", "verifyFeatureTests",
                   "resumeFeatureWithContext", "commitChangesOnly",
                   "runProjectAnalysis"}

\* The body of stopFeature on a registered id: abort, then delete the entry.
StopRunning(featureId) ==
  LET t == runningFeatures[featureId].token IN
  /\ procs' = IF abortControllerSet(t)
              THEN [procs EXCEPT ![t].aborted = TRUE]
              ELSE procs
  /\ runningFeatures' = DeleteRunning(runningFeatures, featureId)

\* stopFeature that returns success for an id that is not registered.
stopFeatureNotRunningSucceeds(featureId) ==
  /\ Called
  /\ result' = [NoResult EXCEPT !.op = "stopFeature", !.key = featureId,
                               !.outcome = "returned"]
  /\ IF Has(featureId) THEN StopRunning(featureId)
     ELSE UNCHANGED <<runningFeatures, procs>>
  /\ events' = {}
  /\ UNCHANGED spawned
  /\ Quiet

\* stopFeature
stopFeature(featureId) ==
  /\ Called
  /\ IF ~Has(featureId)
     THEN /\ result' = [NoResult EXCEPT !.op = "stopFeature",
                          !.key = featureId, !.outcome = "not_running"]
          /\ UNCHANGED <<runningFeatures, procs>>
     ELSE /\ result' = [NoResult EXCEPT !.op = "stopFeature",
                          !.key = featureId, !.outcome = "returned"]
          /\ StopRunning(featureId)
  /\ events' = {}
  /\ UNCHANGED spawned
  /\ Quiet

(* -------------------------- the project loop -------------------------- *)

InFlight(p) ==
  polls[p][1] + polls[p][2] + polls[p][3]

\* checkAndStartFeaturesForProject up to its await of loadFeatures.
CheckSync(loops, p) ==
  LET availableSlots == loops[p].maxConcurrency - getRunningCountForProject(p)
  IN  IF loops[p].known /\ loops[p].isRunning /\ availableSlots > 0
      THEN [polls EXCEPT ![p][availableSlots] = @ + 1]
      ELSE polls

\* start: `maxConcurrency || 3`, the initial check, then setInterval.
start(projectPath, maxConcurrency) ==
  /\ Called
  /\ IF projectLoops[projectPath].isRunning
     THEN /\ result' = [NoResult EXCEPT !.op = "start", !.key = projectPath,
                          !.outcome = "already_running"]
          /\ events' = {}
          /\ UNCHANGED <<runningFeatures, projectLoops, features, context, procs,
                         polls, spawned>>
     ELSE LET loops == [projectLoops EXCEPT ![projectPath] =
                          [known |-> TRUE, isRunning |-> TRUE, interval |-> TRUE,
                           maxConcurrency |->
                             IF maxConcurrency = 0 THEN DefaultMaxConcurrency
                             ELSE maxConcurrency]]
          IN  /\ InFlight(projectPath) < MaxPolls
              /\ projectLoops' = loops
              /\ polls' = CheckSync(loops, projectPath)
              /\ result' = [NoResult EXCEPT !.op = "start", !.key = projectPath,
                              !.outcome = "returned"]
              /\ events' = {}
              /\ UNCHANGED <<runningFeatures, features, context, procs, spawned>>

\* stop that also drops the running features of the project.
stopRegistryDropsRunning(rf, projectPath) ==
  [k \in Keys |-> IF rf[k].projectPath = projectPath THEN NoExec ELSE rf[k]]

\* What stop does to the registry: nothing (running features complete).
stopRegistry(rf, projectPath) == rf

\* A stop that leaves the interval timer scheduled.
stopKeepsTimer(projectPath) ==
  /\ Called
  /\ projectLoops' = IF projectLoops[projectPath].known
                     THEN [projectLoops EXCEPT ![projectPath].isRunning = FALSE]
                     ELSE projectLoops
  /\ result' = [NoResult EXCEPT !.op = "stop", !.key = projectPath,
                  !.outcome = "returned",
                  !.count = IF projectLoops[projectPath].known
                            THEN getRunningCountForProject(projectPath)
                            ELSE 0]
  /\ events' = {}
  /\ UNCHANGED <<runningFeatures, features, context, procs, polls, spawned>>

stop(projectPath) ==
  /\ Called
  /\ IF ~projectLoops[projectPath].known
     THEN /\ result' = [NoResult EXCEPT !.op = "stop", !.key = projectPath,
                          !.outcome = "returned", !.count = 0]
          /\ UNCHANGED <<projectLoops, runningFeatures>>
     ELSE /\ projectLoops' = [projectLoops EXCEPT
                                ![projectPath].isRunning = FALSE,
                                ![projectPath].interval = FALSE]
          /\ runningFeatures' = stopRegistry(runningFeatures, projectPath)
          /\ result' = [NoResult EXCEPT !.op = "stop", !.key = projectPath,
                          !.outcome = "returned",
                          !.count = getRunningCountForProject(projectPath)]
  /\ events' = {}
  /\ UNCHANGED <<features, context, procs, polls, spawned>>

\* The setInterval callback of runPeriodicLoopForProject.
Tick(projectPath) ==
  /\ projectLoops[projectPath].interval
  /\ InFlight(projectPath) < MaxPolls
  /\ polls' = IF projectLoops[projectPath].isRunning
              THEN CheckSync(projectLoops, projectPath)
              ELSE polls
  /\ result' = NoResult
  /\ events' = {}
  /\ UNCHANGED <<runningFeatures, projectLoops, features, context, procs,
                 spawned, calls>>

(* ------------------- the steps of the async methods ------------------- *)

At(t, kinds, pc) == procs[t].kind \in kinds /\ procs[t].pc = pc

Goto(t, pc) == [procs EXCEPT ![t].pc = pc]

\* A step inside a try block that only moves the method on.
Internal(t, next, evs) ==
  /\ procs' = next
  /\ events' = evs
  /\ result' = NoResult
  /\ UNCHANGED <<runningFeatures, spawned, calls, projectLoops, polls>>

\* A runFollowUpWork without the finally block.
finallyDeleteNotInFollowUp(rf, kind, featureId) ==
  IF kind = "runFollowUpWork" THEN rf ELSE DeleteRunning(rf, featureId)

\* A finally block that empties the registry.
finallyDeleteAll(rf, kind, featureId) == [k \in Keys |-> NoExec]

\* `finally { this.runningFeatures.delete(featureId) }`
finallyDelete(rf, kind, featureId) == DeleteRunning(rf, featureId)

\* The method ends: its finally block runs and its promise settles.
Finish(t, outcome, statusOk) ==
  /\ procs' = [procs EXCEPT ![t] = NoProc]
  /\ runningFeatures' =
       finallyDelete(runningFeatures, procs[t].kind, procs[t].key)
  /\ result' = [NoResult EXCEPT !.op = procs[t].kind, !.key = procs[t].key,
                  !.outcome = outcome,
                  !.passes = procs[t].passes, !.ctxOk = procs[t].ctxOk,
                  !.statusOk = statusOk]
  /\ UNCHANGED <<spawned, calls, projectLoops, polls>>

\* The methods whose catch block writes the error to the context file and
\* the store before it reports it.
CatchWriters == {"runFeature", "startFeatureAsync", "verifyFeature",
                 "resumeFeature", "runFollowUpWork"}

\* A catch block that re-raises in the background methods too.
rethrowsAlways(kind) == TRUE

\* `throw error` at the end of the catch block: not in startFeatureAsync
\* and runFollowUpWork.
rethrows(kind) == kind \in {"runFeature", "verifyFeature", "resumeFeature"}

\* A catch block that sends the feature back to the backlog.
catchStatusBacklog == "backlog"

\* The status the catch block writes.
catchStatus == "waiting_approval"

\* newStatus that ignores skipTests.
newStatusIgnoresSkipTests(passes, skipTests) ==
  IF passes THEN "verified" ELSE "waiting_approval"

\* newStatus after implementFeature / resumeFeatureWithContext returned.
newStatus(passes, skipTests) ==
  IF passes THEN (IF skipTests THEN "waiting_approval" ELSE "verified")
  ELSE "waiting_approval"

\* newStatus after verifyFeatureTests returned.
verifyStatus(passes) == IF passes THEN "verified" ELSE "in_progress"

Implementers == {"runFeature", "startFeatureAsync", "resumeFeature",
                 "runFollowUpWork"}

\* A runFeature that invokes the engine right after it found the feature.
LoadFeaturesThenImplement(t) ==
  /\ At(t, {"runFeature", "verifyFeature", "resumeFeature",
            "runFollowUpWork"}, "loadFeatures")
  /\ \E found \in BOOLEAN :
       IF ~found THEN Internal(t, Goto(t, "catchContext"), {})
       ELSE CASE procs[t].kind = "runFeature" ->
                   Internal(t, Goto(t, "implementFeature"), {})
              [] procs[t].kind = "verifyFeature" ->
                   Internal(t, Goto(t, "verifyFeatureTests"),
                            {Ev("auto_mode_feature_start", procs[t].key)})
              [] procs[t].kind = "resumeFeature" ->
                   Internal(t, Goto(t, "readContextFile"),
                            {Ev("auto_mode_feature_start", procs[t].key)})
              [] procs[t].kind = "runFollowUpWork" ->
                   Internal(t, Goto(t, "updateStatusInProgress"), {})
  /\ UNCHANGED <<features, context>>

\* await featureLoader.loadFeatures + features.find, first statement of try.
LoadFeatures(t) ==
  /\ At(t, {"runFeature", "verifyFeature", "resumeFeature",
            "runFollowUpWork"}, "loadFeatures")
  /\ \E found \in BOOLEAN :
       IF ~found THEN Internal(t, Goto(t, "catchContext"), {})
       ELSE CASE procs[t].kind = "runFeature" ->
                   Internal(t, Goto(t, IF procs[t].useWorktrees
                                       THEN "isGitRepo"
                                       ELSE "updateStatusInProgress"), {})
              [] procs[t].kind = "verifyFeature" ->
                   Internal(t, Goto(t, "verifyFeatureTests"),
                            {Ev("auto_mode_feature_start", procs[t].key)})
              [] procs[t].kind = "resumeFeature" ->
                   Internal(t, Goto(t, "readContextFile"),
                            {Ev("auto_mode_feature_start", procs[t].key)})
              [] procs[t].kind = "runFollowUpWork" ->
                   Internal(t, Goto(t, "updateStatusInProgress"), {})
  /\ UNCHANGED <<features, context>>

\* setupWorktreeForFeature: await worktreeManager.isGitRepo
IsGitRepo(t) ==
  /\ At(t, {"runFeature"}, "isGitRepo")
  /\ \E r \in {"git", "not git", "throws"} :
       CASE r = "git" ->
              Internal(t, Goto(t, "createWorktree"),
                       {Ev("auto_mode_progress", procs[t].key)})
         [] r = "not git" -> Internal(t, Goto(t, "updateStatusInProgress"), {})
         [] r = "throws" -> Internal(t, Goto(t, "catchContext"), {})
  /\ UNCHANGED <<features, context>>

\* setupWorktreeForFeature: await worktreeManager.createWorktree
CreateWorktree(t) ==
  /\ At(t, {"runFeature"}, "createWorktree")
  /\ \E r \in {"success", "failure", "throws"} :
       CASE r = "success" ->
              Internal(t, Goto(t, "updateFeatureWorktree"),
                       {Ev("auto_mode_progress", procs[t].key)})
         [] r = "failure" ->
              Internal(t, Goto(t, "updateStatusInProgress"),
                       {Ev("auto_mode_progress", procs[t].key)})
         [] r = "throws" -> Internal(t, Goto(t, "catchContext"), {})
  /\ UNCHANGED <<features, context>>

\* setupWorktreeForFeature: await featureLoader.updateFeatureWorktree
BindWorktree(t) ==
  /\ At(t, {"runFeature"}, "updateFeatureWorktree")
  /\ \E ok \in BOOLEAN :
       IF ok
       THEN /\ features' = updateFeatureWorktree(features, procs[t].key, TRUE)
            /\ Internal(t, [procs EXCEPT ![t].pc = "updateStatusInProgress",
                                         ![t].isolated = TRUE], {})
       ELSE /\ UNCHANGED features
            /\ Internal(t, Goto(t, "catchContext"), {})
  /\ UNCHANGED context

\* await featureLoader.updateFeatureStatus(featureId, "in_progress", ...)
\* and the auto_mode_feature_start event after it.
MarkInProgress(t) ==
  /\ At(t, {"runFeature", "startFeatureAsync", "runFollowUpWork"},
        "updateStatusInProgress")
  /\ \E ok \in BOOLEAN :
       IF ok
       THEN /\ features' = updateFeatureStatus(features, procs[t].key,
                                               "in_progress", FALSE)
            /\ Internal(t, Goto(t, IF procs[t].kind = "runFollowUpWork"
                                   THEN "readContextFile"
                                   ELSE "implementFeature"),
                        {Ev("auto_mode_feature_start", procs[t].key)})
       ELSE /\ UNCHANGED features
            /\ Internal(t, Goto(t, "catchContext"), {})
  /\ UNCHANGED context

\* await featureExecutor.implementFeature
ImplementFeature(t) ==
  /\ At(t, {"runFeature", "startFeatureAsync"}, "implementFeature")
  /\ \E r \in {"passes", "fails", "throws"} :
       IF r = "throws" THEN Internal(t, Goto(t, "catchContext"), {})
       ELSE Internal(t, [procs EXCEPT ![t].pc = "updateStatusFinal",
                                      ![t].passes = (r = "passes")], {})
  /\ UNCHANGED <<features, context>>

\* await featureVerifier.verifyFeatureTests
VerifyFeatureTests(t) ==
  /\ At(t, {"verifyFeature"}, "verifyFeatureTests")
  /\ \E r \in {"passes", "fails", "throws"} :
       IF r = "throws" THEN Internal(t, Goto(t, "catchContext"), {})
       ELSE Internal(t, [procs EXCEPT ![t].pc = "updateStatusFinal",
                                      ![t].passes = (r = "passes")], {})
  /\ UNCHANGED <<features, context>>

\* await contextManager.readContextFile (resumeFeature, runFollowUpWork)
ReadContextFile(t) ==
  /\ At(t, {"resumeFeature", "runFollowUpWork"}, "readContextFile")
  /\ \E ok \in BOOLEAN :
       IF ~ok THEN Internal(t, Goto(t, "catchContext"), {})
       ELSE Internal(t, Goto(t, IF procs[t].kind = "resumeFeature"
                                THEN "resumeFeatureWithContext"
                                ELSE "writeFollowUp"), {})
  /\ UNCHANGED <<features, context>>

\* runFollowUpWork: await contextManager.writeToContextFile(follow-up prompt)
WriteFollowUp(t) ==
  /\ At(t, {"runFollowUpWork"}, "writeFollowUp")
  /\ \E ok \in BOOLEAN :
       IF ok
       THEN /\ context' = writeToContextFile(context, procs[t].key, "followup")
            /\ Internal(t, Goto(t, "resumeFeatureWithContext"), {})
       ELSE /\ UNCHANGED context
            /\ Internal(t, Goto(t, "catchContext"), {})
  /\ UNCHANGED features

\* A retry loop that allows one attempt more.
retryConditionOneMore(passes, attempts) == ~passes /\ attempts <= maxAttempts

\* `while (!finalResult.passes && attempts < maxAttempts)`
retryCondition(passes, attempts) == ~passes /\ attempts < maxAttempts

\* await featureExecutor.resumeFeatureWithContext; in resumeFeature the
\* condition of the retry loop is evaluated on its result.
ResumeFeatureWithContext(t) ==
  /\ At(t, {"resumeFeature", "runFollowUpWork"}, "resumeFeatureWithContext")
  /\ \E r \in {"passes", "fails", "throws"} :
       IF r = "throws" THEN Internal(t, Goto(t, "catchContext"), {})
       ELSE Internal(t,
              [procs EXCEPT
                 ![t].passes = (r = "passes"),
                 ![t].pc = IF /\ procs[t].kind = "resumeFeature"
                              /\ retryCondition(r = "passes", procs[t].attempts)
                           THEN "reloadFeatures"
                           ELSE "updateStatusFinal"], {})
  /\ UNCHANGED <<features, context>>

\* resumeFeature, in the loop: await loadFeatures; retry only if the
\* feature is still in_progress, else break.
ReloadFeatures(t) ==
  /\ At(t, {"resumeFeature"}, "reloadFeatures")
  /\ \E ok \in BOOLEAN :
       IF ~ok THEN Internal(t, Goto(t, "catchContext"), {})
       ELSE IF features[procs[t].key].status = "in_progress"
            THEN Internal(t, [procs EXCEPT ![t].attempts = @ + 1,
                                           ![t].pc = "writeRetry"], {})
            ELSE Internal(t, Goto(t, "updateStatusFinal"), {})
  /\ UNCHANGED <<features, context>>

\* resumeFeature, in the loop: await writeToContextFile(auto-retry marker),
\* then the auto_mode_progress event.
WriteRetry(t) ==
  /\ At(t, {"resumeFeature"}, "writeRetry")
  /\ \E ok \in BOOLEAN :
       IF ok
       THEN /\ context' = writeToContextFile(context, procs[t].key, "retry")
            /\ Internal(t, Goto(t, "readRetryContext"),
                        {Ev("auto_mode_progress", procs[t].key)})
       ELSE /\ UNCHANGED context
            /\ Internal(t, Goto(t, "catchContext"), {})
  /\ UNCHANGED features

\* resumeFeature, in the loop: await readContextFile
ReadRetryContext(t) ==
  /\ At(t, {"resumeFeature"}, "readRetryContext")
  /\ \E ok \in BOOLEAN :
       Internal(t, Goto(t, IF ok THEN "resumeFeatureWithContext"
                           ELSE "catchContext"), {})
  /\ UNCHANGED <<features, context>>

\* await featureLoader.updateFeatureStatus(featureId, newStatus, ...), the
\* auto_mode_feature_complete event, return, finally.
UpdateStatusFinal(t) ==
  /\ At(t, Implementers \cup {"verifyFeature"}, "updateStatusFinal")
  /\ \E ok \in BOOLEAN :
       IF ok
       THEN /\ features' = updateFeatureStatus(features, procs[t].key,
                 IF procs[t].kind = "verifyFeature"
                 THEN verifyStatus(procs[t].passes)
                 ELSE newStatus(procs[t].passes, SkipTests(procs[t].key)),
                 FALSE)
            /\ events' = {Ev("auto_mode_feature_complete", procs[t].key)}
            /\ Finish(t, "returned", TRUE)
       ELSE /\ UNCHANGED features
            /\ Internal(t, Goto(t, "catchContext"), {})
  /\ UNCHANGED context

\* catch: `try { await contextManager.writeToContextFile(error) } catch {}`
CatchContext(t) ==
  /\ At(t, CatchWriters, "catchContext")
  /\ \E ok \in BOOLEAN :
       /\ context' = IF ok
                     THEN writeToContextFile(context, procs[t].key, "error")
                     ELSE context
       /\ Internal(t, [procs EXCEPT ![t].pc = "catchStatus",
                                    ![t].ctxOk = ok], {})
  /\ UNCHANGED features

\* catch: `try { await updateFeatureStatus(waiting_approval, error) } catch
\* {}`, the auto_mode_error event, `throw error` where there is one, finally.
CatchStatus(t) ==
  /\ At(t, CatchWriters, "catchStatus")
  /\ \E ok \in BOOLEAN :
       /\ features' = IF ok
                      THEN updateFeatureStatus(features, procs[t].key,
                                               catchStatus, TRUE)
                      ELSE features
       /\ events' = {Ev("auto_mode_error", procs[t].key)}
       /\ Finish(t, IF rethrows(procs[t].kind) THEN "threw" ELSE "swallowed",
                 ok)
  /\ UNCHANGED context

(* ------------------- commitFeature / analyzeProject ------------------- *)

\* The catch block of commitFeature and analyzeProject: the auto_mode_error
\* event, `throw error`, finally.
CatchReport(t) ==
  /\ events' = {Ev("auto_mode_error", procs[t].key)}
  /\ Finish(t, "threw", FALSE)
  /\ UNCHANGED <<features, context>>

\* commitFeature: await loadFeatures + find, then the start and phase events.
CommitLoadFeatures(t) ==
  /\ At(t, {"commitFeature"}, "loadFeatures")
  /\ \/ /\ Internal(t, Goto(t, "commitChangesOnly"),
                    {Ev("auto_mode_feature_start", procs[t].key),
                     Ev("auto_mode_phase", procs[t].key)})
        /\ UNCHANGED <<features, context>>
     \/ CatchReport(t)

\* commitFeature: await featureExecutor.commitChangesOnly
CommitChangesOnly(t) ==
  /\ At(t, {"commitFeature"}, "commitChangesOnly")
  /\ \/ /\ Internal(t, Goto(t, "updateStatusVerified"), {})
        /\ UNCHANGED <<features, context>>
     \/ CatchReport(t)

\* commitFeature: await updateFeatureStatus(featureId, "verified", ...)
CommitUpdateStatus(t) ==
  /\ At(t, {"commitFeature"}, "updateStatusVerified")
  /\ \/ /\ features' = updateFeatureStatus(features, procs[t].key,
                                           "verified", FALSE)
        /\ events' = {Ev("auto_mode_feature_complete", procs[t].key)}
        /\ Finish(t, "returned", TRUE)
        /\ UNCHANGED context
     \/ CatchReport(t)

\* analyzeProject: await projectAnalyzer.runProjectAnalysis
RunProjectAnalysis(t) ==
  /\ At(t, {"analyzeProject"}, "runProjectAnalysis")
  /\ \/ /\ events' = {Ev("auto_mode_feature_complete", procs[t].key)}
        /\ Finish(t, "returned", FALSE)
        /\ UNCHANGED <<features, context>>
     \/ CatchReport(t)

(* -------------------- revertFeature / mergeFeature -------------------- *)

\* A revertFeature that does not stop the running feature first.
revertFeatureWithoutStop(projectPath, featureId) ==
  /\ Called
  /\ spawned < MaxSpawn
  /\ spawned' = spawned + 1
  /\ procs' = [procs EXCEPT ![spawned + 1] =
                 NewProc("revertFeature", featureId, projectPath,
                         "removeWorktree", FALSE)]
  /\ result' = NoResult
  /\ events' = {}
  /\ UNCHANGED runningFeatures
  /\ Quiet

\* revertFeature up to its await of removeWorktree: stops the feature if it
\* is running.
revertFeature(projectPath, featureId) ==
  /\ Called
  /\ spawned < MaxSpawn
  /\ spawned' = spawned + 1
  /\ LET t == runningFeatures[featureId].token
         stopped == IF Has(featureId) /\ abortControllerSet(t)
                    THEN [procs EXCEPT ![t].aborted = TRUE]
                    ELSE procs
     IN  /\ procs' = [stopped EXCEPT ![spawned + 1] =
                        NewProc("revertFeature", featureId, projectPath,
                                "removeWorktree", FALSE)]
         /\ runningFeatures' = IF Has(featureId)
                               THEN DeleteRunning(runningFeatures, featureId)
                               ELSE runningFeatures
  /\ result' = NoResult
  /\ events' = {}
  /\ Quiet

mergeFeature(projectPath, featureId) ==
  /\ Called
  /\ spawned < MaxSpawn
  /\ spawned' = spawned + 1
  /\ procs' = [procs EXCEPT ![spawned + 1] =
                 NewProc("mergeFeature", featureId, projectPath,
                         "loadFeatures", FALSE)]
  /\ result' = NoResult
  /\ events' = {}
  /\ UNCHANGED runningFeatures
  /\ Quiet

\* The method returns a value; it holds no registry entry of its own.
Return(t, outcome) ==
  /\ procs' = [procs EXCEPT ![t] = NoProc]
  /\ result' = [NoResult EXCEPT !.op = procs[t].kind, !.key = procs[t].key,
                  !.outcome = outcome]
  /\ UNCHANGED <<runningFeatures, spawned, calls, projectLoops, polls>>

\* A catch block that also sends the feature back to the backlog.
CatchReturnResetsStatus(t) ==
  /\ events' = {Ev("auto_mode_error", procs[t].key)}
  /\ Return(t, "failed")
  /\ features' = updateFeatureStatus(features, procs[t].key, "backlog", FALSE)
  /\ UNCHANGED context

\* The catch block of revertFeature and mergeFeature: the auto_mode_error
\* event and `return { success: false, error }`.
CatchReturn(t) ==
  /\ events' = {Ev("auto_mode_error", procs[t].key)}
  /\ Return(t, "failed")
  /\ UNCHANGED <<features, context>>

\* revertFeature: await worktreeManager.removeWorktree(.., true)
RemoveWorktree(t) ==
  /\ At(t, {"revertFeature"}, "removeWorktree")
  /\ \/ /\ Internal(t, Goto(t, "clearWorktree"), {})
        /\ UNCHANGED <<features, context>>
     \/ CatchReturn(t)

\* await featureLoader.updateFeatureWorktree(featureId, projectPath, null, null)
ClearWorktree(t) ==
  /\ At(t, {"revertFeature", "mergeFeature"}, "clearWorktree")
  /\ \/ /\ features' = updateFeatureWorktree(features, procs[t].key, FALSE)
        /\ Internal(t, Goto(t, IF procs[t].kind = "revertFeature"
                               THEN "updateStatusBacklog"
                               ELSE "updateStatusVerified"), {})
        /\ UNCHANGED context
     \/ CatchReturn(t)

\* revertFeature: await updateFeatureStatus(featureId, "backlog", ...)
RevertUpdateStatus(t) ==
  /\ At(t, {"revertFeature"}, "updateStatusBacklog")
  /\ \/ /\ features' = updateFeatureStatus(features, procs[t].key,
                                           "backlog", FALSE)
        /\ Internal(t, Goto(t, "deleteContextFile"), {})
        /\ UNCHANGED context
     \/ CatchReturn(t)

\* revertFeature: await contextManager.deleteContextFile, the complete event
DeleteContextFile(t) ==
  /\ At(t, {"revertFeature"}, "deleteContextFile")
  /\ \/ /\ context' = deleteContextFile(context, procs[t].key)
        /\ events' = {Ev("auto_mode_feature_complete", procs[t].key)}
        /\ Return(t, "returned")
        /\ UNCHANGED features
     \/ CatchReturn(t)

\* mergeFeature: await loadFeatures + find, then the progress event
MergeLoadFeatures(t) ==
  /\ At(t, {"mergeFeature"}, "loadFeatures")
  /\ \/ /\ Internal(t, Goto(t, "mergeWorktree"),
                    {Ev("auto_mode_progress", procs[t].key)})
        /\ UNCHANGED <<features, context>>
     \/ CatchReturn(t)

\* mergeFeature: await worktreeManager.mergeWorktree(.., {cleanup: true})
MergeWorktree(t) ==
  /\ At(t, {"mergeFeature"}, "mergeWorktree")
  /\ \/ /\ Internal(t, Goto(t, "clearWorktree"), {})
        /\ UNCHANGED <<features, context>>
     \/ CatchReturn(t)

\* The status mergeFeature writes, were it to await approval.
mergeStatusWaitingApproval == "waiting_approval"

\* The status mergeFeature writes after a successful merge.
mergeStatus == "verified"

\* mergeFeature: await updateFeatureStatus(featureId, "verified", ...)
MergeUpdateStatus(t) ==
  /\ At(t, {"mergeFeature"}, "updateStatusVerified")
  /\ \/ /\ features' = updateFeatureStatus(features, procs[t].key,
                                           mergeStatus, FALSE)
        /\ events' = {Ev("auto_mode_feature_complete", procs[t].key)}
        /\ Return(t, "returned")
        /\ UNCHANGED context
     \/ CatchReturn(t)

(* ----------------------- the poll step, resumed ----------------------- *)

Min(a, b) == IF a < b THEN a ELSE b

\* features.filter((f) => f.status === "backlog"), in the listed order
backlogFeatures(projectPath) ==
  SelectSeq(FeatureList, LAMBDA f : /\ ProjectOf(f) = projectPath
                                    /\ features[f].status = "backlog")

\* A poll step that starts every backlog feature, whatever the free slots.
featuresToStartAll(projectPath, availableSlots) ==
  backlogFeatures(projectPath)

\* A poll step that slices the listed features before it filters them.
featuresToStartSliceFirst(projectPath, availableSlots) ==
  SelectSeq(SubSeq(FeatureList, 1, Min(availableSlots, Len(FeatureList))),
            LAMBDA f : /\ ProjectOf(f) = projectPath
                       /\ features[f].status = "backlog")

\* backlogFeatures.slice(0, availableSlots)
featuresToStart(projectPath, availableSlots) ==
  SubSeq(backlogFeatures(projectPath), 1,
         Min(availableSlots, Len(backlogFeatures(projectPath))))

\* startFeatureAsync: `if (this.runningFeatures.has(featureId)) return`
startFeatureAsyncSkips(featureId) == Has(featureId)

\* checkAndStartFeaturesForProject after loadFeatures returned: every
\* feature to start is handed to startFeatureAsync, which registers it and
\* runs to its await of updateFeatureStatus (worktrees are off).
StartBacklog(projectPath, availableSlots) ==
  LET starting == SelectSeq(featuresToStart(projectPath, availableSlots),
                            LAMBDA f : ~startFeatureAsyncSkips(f))
      n == Len(starting)
  IN  /\ spawned + n <= MaxSpawn
      /\ spawned' = spawned + n
      /\ procs' = [t \in Tokens |->
                     IF t \in (spawned + 1)..(spawned + n)
                     THEN NewProc("startFeatureAsync", starting[t - spawned],
                                  projectPath, "updateStatusInProgress", FALSE)
                     ELSE procs[t]]
      /\ runningFeatures' =
           [k \in Keys |->
              IF \E i \in 1..n : starting[i] = k
              THEN [token |-> spawned + (CHOOSE i \in 1..n : starting[i] = k),
                    projectPath |-> projectPath]
              ELSE runningFeatures[k]]

\* A poll step whose failed loadFeatures stops the project's loop.
PollResumeStopsOnError(projectPath, availableSlots) ==
  /\ polls[projectPath][availableSlots] > 0
  /\ polls' = [polls EXCEPT ![projectPath][availableSlots] = @ - 1]
  /\ \/ /\ StartBacklog(projectPath, availableSlots)
        /\ UNCHANGED projectLoops
     \/ /\ UNCHANGED <<runningFeatures, procs, spawned>>
        /\ projectLoops' = [projectLoops EXCEPT
                              ![projectPath].isRunning = FALSE,
                              ![projectPath].interval = FALSE]
  /\ result' = NoResult
  /\ events' = {}
  /\ UNCHANGED <<features, context, calls>>

PollResume(projectPath, availableSlots) ==
  /\ polls[projectPath][availableSlots] > 0
  /\ polls' = [polls EXCEPT ![projectPath][availableSlots] = @ - 1]
  /\ \/ StartBacklog(projectPath, availableSlots)
     \/ \* loadFeatures threw: caught and logged
        UNCHANGED <<runningFeatures, procs, spawned>>
  /\ result' = NoResult
  /\ events' = {}
  /\ UNCHANGED <<projectLoops, features, context, calls>>

(* ------------------------------- Next --------------------------------- *)

\* The steps of the methods that hold or remove registry entries.
RegistryStep(t) ==
  \/ LoadFeatures(t) \/ IsGitRepo(t) \/ CreateWorktree(t) \/ BindWorktree(t)
  \/ MarkInProgress(t) \/ ImplementFeature(t) \/ VerifyFeatureTests(t)
  \/ ReadContextFile(t) \/ WriteFollowUp(t) \/ ResumeFeatureWithContext(t)
  \/ ReloadFeatures(t) \/ WriteRetry(t) \/ ReadRetryContext(t)
  \/ UpdateStatusFinal(t) \/ CatchContext(t) \/ CatchStatus(t)
  \/ CommitLoadFeatures(t) \/ CommitChangesOnly(t) \/ CommitUpdateStatus(t)
  \/ RunProjectAnalysis(t)
  \/ RemoveWorktree(t) \/ ClearWorktree(t) \/ RevertUpdateStatus(t)
  \/ DeleteContextFile(t)

MergeStep(t) ==
  \/ MergeLoadFeatures(t) \/ MergeWorktree(t) \/ MergeUpdateStatus(t)

Step(t) == RegistryStep(t) \/ MergeStep(t)

Next ==
  \/ \E f \in Features, w \in BOOLEAN : runFeature(ProjectOf(f), f, w)
  \/ \E f \in Features : verifyFeature(ProjectOf(f), f)
  \/ \E f \in Features : resumeFeature(ProjectOf(f), f)
  \/ \E f \in Features : followUpFeature(ProjectOf(f), f)
  \/ \E f \in Features : commitFeature(ProjectOf(f), f)
  \/ \E f \in Features : revertFeature(ProjectOf(f), f)
  \/ \E f \in Features : mergeFeature(ProjectOf(f), f)
  \/ \E p \in Projects : analyzeProject(p, AnalysisId)
  \/ \E k \in Keys : stopFeature(k)
  \/ \E p \in Projects, m \in MaxConcurrencyInputs : start(p, m)
  \/ \E p \in Projects : stop(p)
  \/ \E p \in Projects : Tick(p)
  \/ \E p \in Projects, n \in SlotCounts : PollResume(p, n)
  \/ \E t \in Tokens : Step(t)

Spec == Init /\ [][Next]_vars

\* The calls and steps that insert or remove registry entries: every entry
\* point, stopFeature, revertFeature, and the scheduler's start with its
\* poll step.
RegistryNext ==
  \/ \E f \in Features, w \in BOOLEAN : runFeature(ProjectOf(f), f, w)
  \/ \E f \in Features : verifyFeature(ProjectOf(f), f)
  \/ \E f \in Features : resumeFeature(ProjectOf(f), f)
  \/ \E f \in Features : followUpFeature(ProjectOf(f), f)
  \/ \E f \in Features : commitFeature(ProjectOf(f), f)
  \/ \E f \in Features : revertFeature(ProjectOf(f), f)
  \/ \E p \in Projects : analyzeProject(p, AnalysisId)
  \/ \E k \in Keys : stopFeature(k)
  \/ \E p \in Projects, m \in MaxConcurrencyInputs : start(p, m)
  \/ \E p \in Projects, n \in SlotCounts : PollResume(p, n)
  \/ \E t \in Tokens : RegistryStep(t)

\* The event loop runs every continuation whose awaited call has settled.
FairSpec ==
  /\ Init
  /\ [][RegistryNext]_vars
  /\ \A t \in Tokens : WF_vars(RegistryStep(t))

(* ============================== claims ================================ *)

\* The methods that hold a registry entry from their first statement to
\* their finally block.
Pipelines == {"runFeature", "startFeatureAsync", "verifyFeature",
              "resumeFeature", "runFollowUpWork", "commitFeature"}

PipelinesOf(key) ==
  {t \in Tokens : procs[t].kind \in Pipelines /\ procs[t].key = key}

CheckedEntryPoints == {"runFeature", "verifyFeature", "resumeFeature",
                       "followUpFeature"}

\* C1: runFeature, verifyFeature, resumeFeature or followUpFeature called
\* on an id that is in the registry fails with 'already running' and leaves
\* the registry, the feature store and every running method as they were.
C1_AlreadyRunningRejected ==
  [][\A f \in Features :
       (/\ Has(f)
        /\ \/ \E w \in BOOLEAN : runFeature(ProjectOf(f), f, w)
           \/ verifyFeature(ProjectOf(f), f)
           \/ resumeFeature(ProjectOf(f), f)
           \/ followUpFeature(ProjectOf(f), f))
       => /\ runningFeatures' = runningFeatures
          /\ features' = features
          /\ procs' = procs
          /\ result'.outcome = "already_running"
          /\ result'.key = f]_vars

\* C1 witness: a second start attempt on a registered id was rejected.
C1_Witness ==
  /\ result.op \in CheckedEntryPoints
  /\ result.outcome = "already_running"
  /\ Has(result.key)
  /\ PipelinesOf(result.key) # {}

\* C2: for every feature id at most one pipeline is between its registry
\* insertion and its own final release.
C2_OnePipelinePerId ==
  \A f \in Features : Cardinality(PipelinesOf(f)) <= 1

\* C3: commitFeature on an id that is in the registry is rejected: it
\* replaces no execution and starts no commit.
C3_CommitRejectedWhenActive ==
  [][\A f \in Features :
       (Has(f) /\ commitFeature(ProjectOf(f), f))
       => /\ runningFeatures' = runningFeatures
          /\ procs' = procs
          /\ result'.outcome = "already_running"]_vars

\* Every registry entry of the project belongs to a scheduler-started run.
OnlyScheduler(p) ==
  \A k \in Keys :
    runningFeatures[k].projectPath = p
    => procs[runningFeatures[k].token].kind = "startFeatureAsync"

\* C4: when only the scheduler starts features of a project, a step that
\* registers executions for it never brings their number above the
\* project's maxConcurrency.
C4_ConcurrencyBound ==
  [][\A p \in Projects :
       (/\ getRunningCountForProject(p)' > getRunningCountForProject(p)
        /\ OnlyScheduler(p)')
       => getRunningCountForProject(p)' <= projectLoops'[p].maxConcurrency]_vars

\* C5: stop(projectPath) sets isRunning false and clears the timer of that
\* project only; it removes no registry entry and aborts no execution, so
\* getStatus reports the same running features as before.
C5_StopKeepsRunningFeatures ==
  [][\A p \in Projects :
       stop(p)
       => /\ runningFeatures' = runningFeatures
          /\ procs' = procs
          /\ \A q \in Projects \ {p} : projectLoops'[q] = projectLoops[q]
          /\ ~projectLoops'[p].isRunning
          /\ ~projectLoops'[p].interval
          /\ projectLoops'[p].maxConcurrency = projectLoops[p].maxConcurrency
          /\ getStatus(p)' = [getStatus(p) EXCEPT !.autoLoopRunning = FALSE]
       ]_vars

\* C5 witness: stop returned for a running loop with features in flight.
C5_Witness ==
  /\ result.op = "stop"
  /\ projectLoops[result.key].known
  /\ getRunningCountForProject(result.key) > 0
  /\ \E t \in Tokens : procs[t].pc = "implementFeature"

\* C6: while a project's loop is stopped the scheduler registers no new
\* execution and marks no backlog item in_progress for it.
C6_NoPickupAfterStop ==
  [][\A p \in Projects :
       (projectLoops[p].known /\ ~projectLoops[p].isRunning)
       => /\ \A t \in Tokens :
               (procs'[t].kind = "startFeatureAsync" /\ procs'[t].proj = p)
               => procs[t].kind = "startFeatureAsync"
          /\ \A t \in Tokens :
               (/\ procs[t].kind = "startFeatureAsync"
                /\ procs[t].proj = p
                /\ features[procs[t].key].status = "backlog")
               => ~(MarkInProgress(t)
                    /\ features'[procs[t].key].status = "in_progress")]_vars

\* C7: after an implementation attempt whose engine call returned, the
\* status written is verified if passes and not skipTests, and
\* waiting_approval otherwise.
C7_ResultStatus ==
  (result.op \in Implementers /\ result.outcome = "returned")
  => features[result.key].status =
       IF result.passes /\ ~SkipTests(result.key) THEN "verified"
       ELSE "waiting_approval"

\* C7 witness: a run of a skipTests feature passed and returned.
C7_Witness ==
  /\ result.op \in Implementers
  /\ result.outcome = "returned"
  /\ result.passes
  /\ SkipTests(result.key)

Caught(r) == r.op \in CatchWriters /\ r.outcome \in {"threw", "swallowed"}

C9_CommitErrorRecorded ==
  (result.op = "commitFeature" /\ result.outcome = "threw")
  => /\ "error" \in context[result.key]
     /\ features[result.key].status = "waiting_approval"
     /\ features[result.key].error
     /\ Ev("auto_mode_error", result.key) \in events
     /\ ~Has(result.key)

\* C10: every id put into the registry is eventually removed from it, when
\* every awaited call settles.
C10_EventuallyReleased ==
  \A k \in Keys : Has(k) ~> ~Has(k)

\* C10 witness: the follow-up work, whose caller is gone, failed and its
\* entry is released.
C10_Witness ==
  /\ result.op = "runFollowUpWork"
  /\ result.outcome = "swallowed"
  /\ ~Has(result.key)

(* ------------------ a service with a feature running ------------------ *)

\* The state right after runFeature was called for a feature f and reached
\* its first await (loadFeatures), seen by callers that come after it.
InitRunning ==
  /\ \E f \in Features, w \in BOOLEAN :
       /\ runningFeatures =
            SetRunning([k \in Keys |-> NoExec], f, ProjectOf(f), 1)
       /\ procs = [t \in Tokens |->
                     IF t = 1
                     THEN NewProc("runFeature", f, ProjectOf(f),
                                  "loadFeatures", w)
                     ELSE NoProc]
  /\ projectLoops = [p \in Projects |-> NoLoop]
  /\ features = [f \in Features |->
                   [status |-> "backlog", worktree |-> FALSE, error |-> FALSE]]
  /\ context = [f \in Features |-> NoFile]
  /\ polls = [p \in Projects |-> [n \in SlotCounts |-> 0]]
  /\ spawned = 1
  /\ calls = 0
  /\ result = NoResult
  /\ events = {}

\* The callers and steps that read or write the registry, from there.
RunningSpec == InitRunning /\ [][RegistryNext]_vars

\* C11: stopFeature on an id absent from the registry returns the failure
\* value and changes no state; on a present id it returns success with the
\* entry removed while the stopped method is still at its await; a
\* stopFeature that directly follows a successful stopFeature of the same id
\* returns the failure value.
C11_StopFeatureResult ==
  [][\A k \in Keys :
       stopFeature(k)
       => /\ result'.op = "stopFeature"
          /\ IF Has(k)
             THEN /\ result'.outcome = "returned"
                  /\ runningFeatures' = DeleteRunning(runningFeatures, k)
                  /\ \A t \in Tokens : /\ procs'[t].pc = procs[t].pc
                                       /\ procs'[t].kind = procs[t].kind
             ELSE /\ result'.outcome = "not_running"
                  /\ UNCHANGED <<runningFeatures, procs, features, context,
                                 projectLoops, polls>>
          /\ (/\ result.op = "stopFeature"
              /\ result.key = k
              /\ result.outcome = "returned")
             => result'.outcome = "not_running"]_vars

\* C11 witness: the second of two stopFeature calls on a feature whose
\* method is still awaiting its collaborator returned the failure value.
C11_Witness ==
  /\ result.op = "stopFeature"
  /\ result.outcome = "not_running"
  /\ calls = MaxCalls
  /\ \E t \in Tokens : /\ procs[t].key = result.key
                       /\ procs[t].pc = "loadFeatures"
                       /\ t = 1

\* C12: a method whose execution stopFeature removed during its engine
\* call writes no further status for the feature and sends no further
\* auto_mode_feature_complete or auto_mode_error event for it.
C12_OrphanResultIgnored ==
  [][\A t \in Tokens :
       (/\ procs[t].aborted
        /\ procs[t].key \in Features
        /\ procs'[t] # procs[t])
       => /\ features'[procs[t].key] = features[procs[t].key]
          /\ Ev("auto_mode_feature_complete", procs[t].key) \notin events'
          /\ Ev("auto_mode_error", procs[t].key) \notin events']_vars

\* C13: while a feature's status is waiting_approval no step of the
\* scheduler loop, nor of a run the scheduler started, changes it (runs
\* started by the scheduler are started by no explicit call on the feature).
C13_WaitingApprovalStable ==
  [][\A f \in Features :
       features[f].status = "waiting_approval"
       => /\ (\E p \in Projects, n \in SlotCounts : PollResume(p, n))
               => features'[f].status = "waiting_approval"
          /\ \A t \in Tokens :
               (/\ procs[t].kind = "startFeatureAsync"
                /\ procs[t].key = f
                /\ procs'[t] # procs[t])
               => features'[f].status = "waiting_approval"]_vars

Resuming(t) == procs[t].kind = "resumeFeature"

\* C15: a resumeFeature call makes at most maxAttempts retries after its
\* first engine call (4 engine calls in all) and then ends; it retries only
\* when the last result has passes false and the reloaded status is
\* in_progress; every retry's engine call follows the retry marker written
\* to the transcript with the progress event; and after the last retry a
\* result with passes false is finalized to waiting_approval.
C15_ResumeRetries ==
  /\ [](\A t \in Tokens : Resuming(t) => procs[t].attempts <= maxAttempts)
  /\ [][\A t \in Tokens :
          (Resuming(t) /\ procs'[t] # procs[t])
          => /\ procs'[t].attempts > procs[t].attempts
                => /\ procs'[t].attempts = procs[t].attempts + 1
                   /\ ~procs[t].passes
                   /\ features[procs[t].key].status = "in_progress"
                   /\ procs'[t].pc = "writeRetry"
             /\ (procs[t].pc = "writeRetry"
                 /\ procs'[t].pc = "readRetryContext")
                => /\ "retry" \in context'[procs[t].key]
                   /\ Ev("auto_mode_progress", procs[t].key) \in events'
             /\ (procs'[t].pc = "resumeFeatureWithContext"
                 /\ procs[t].attempts > 0)
                => procs[t].pc = "readRetryContext"
             /\ (/\ procs[t].pc = "updateStatusFinal"
                 /\ ~procs[t].passes
                 /\ result'.outcome = "returned")
                => features'[procs[t].key].status = "waiting_approval"]_vars
  /\ \A t \in Tokens : Resuming(t) ~> ~Resuming(t)

\* C15 witness: resumeFeature is about to finalize after its third retry
\* came back with passes false.
C15_Witness ==
  \E t \in Tokens : /\ Resuming(t)
                     /\ procs[t].pc = "updateStatusFinal"
                     /\ procs[t].attempts = maxAttempts
                     /\ ~procs[t].passes
                     /\ "retry" \in context[procs[t].key]

\* The revertFeature calls whose removeWorktree is in flight.
Removing(r) ==
  procs[r].kind = "revertFeature" /\ procs[r].pc = "removeWorktree"

\* C16: while removeWorktree of a revertFeature call is in flight, the
\* registry holds no execution of that feature that was registered before
\* the call (tokens are handed out in the order of the calls); the call
\* itself leaves the id unregistered.
C16_StoppedBeforeRemoveWorktree ==
  /\ [](\A r \in Tokens :
          Removing(r)
          => ~(/\ Has(procs[r].key)
               /\ runningFeatures[procs[r].key].token < r))
  /\ [][\A f \in Features :
          revertFeature(ProjectOf(f), f)
          => /\ ~Has(f)'
             /\ \A t \in Tokens :
                  (Has(f) /\ runningFeatures[f].token = t
                   /\ abortControllerSet(t))
                  => procs'[t].aborted]_vars

\* C16 witness: removeWorktree is in flight for a feature whose run, begun
\* before the revert, was aborted in its engine call and is unregistered.
C16_Witness ==
  \E r \in Tokens, t \in Tokens :
    /\ Removing(r)
    /\ t < r
    /\ procs[t].key = procs[r].key
    /\ procs[t].pc = "implementFeature"
    /\ procs[t].aborted
    /\ ~Has(procs[r].key)

\* C17: when removeWorktree reports failure or throws, revertFeature
\* changes neither the store nor the transcript, sends auto_mode_error and
\* returns the failure value; the call up to removeWorktree wrote neither.
C17_RevertFailureAppliesNothing ==
  [][/\ \A t \in Tokens :
          (RemoveWorktree(t) /\ procs'[t] = NoProc)
          => /\ features' = features
             /\ context' = context
             /\ events' = {Ev("auto_mode_error", procs[t].key)}
             /\ result'.op = "revertFeature"
             /\ result'.key = procs[t].key
             /\ result'.outcome = "failed"
     /\ \A f \in Features :
          revertFeature(ProjectOf(f), f)
          => features' = features /\ context' = context]_vars

\* C17 witness: revertFeature returned the failure value for a feature
\* that keeps its worktree binding, its status and its transcript.
C17_Witness ==
  /\ result.op = "revertFeature"
  /\ result.outcome = "failed"
  /\ Ev("auto_mode_error", result.key) \in events
  /\ features[result.key].worktree
  /\ features[result.key].status = "in_progress"
  /\ context[result.key] # NoFile

\* C18: when revertFeature returns success, the feature's worktree binding
\* is cleared, its status is backlog and its transcript is deleted.
C18_RevertSuccessState ==
  (result.op = "revertFeature" /\ result.outcome = "returned")
  => /\ ~features[result.key].worktree
     /\ features[result.key].status = "backlog"
     /\ context[result.key] = NoFile

Merging(t) == procs[t].kind = "mergeFeature"

\* C19: mergeFeature starts whatever the registry holds and leaves it
\* alone; after a successful merge it clears the worktree binding and then
\* sets the status verified and returns success; when the feature is not
\* found or the merge fails it changes neither the binding nor the status,
\* sends auto_mode_error and returns the failure value.
C19_MergeFeature ==
  [][/\ \A f \in Features :
          (calls < MaxCalls /\ spawned < MaxSpawn)
          => ENABLED mergeFeature(ProjectOf(f), f)
     /\ \A f \in Features :
          mergeFeature(ProjectOf(f), f)
          => /\ runningFeatures' = runningFeatures
             /\ features' = features
             /\ \A t \in Tokens : procs[t] # NoProc => procs'[t] = procs[t]
     /\ \A t \in Tokens :
          (Merging(t) /\ procs'[t] # procs[t])
          => /\ runningFeatures' = runningFeatures
             /\ procs[t].pc \in {"loadFeatures", "mergeWorktree"}
                => /\ features' = features
                   /\ procs'[t] = NoProc
                      => /\ result'.outcome = "failed"
                         /\ events' = {Ev("auto_mode_error", procs[t].key)}
             /\ (procs[t].pc = "mergeWorktree" /\ procs'[t] # NoProc)
                => procs'[t].pc = "clearWorktree"
             /\ (procs[t].pc = "clearWorktree" /\ procs'[t] # NoProc)
                => /\ ~features'[procs[t].key].worktree
                   /\ procs'[t].pc = "updateStatusVerified"
             /\ (procs[t].pc = "updateStatusVerified"
                 /\ result'.outcome = "returned")
                => /\ features'[procs[t].key].status = "verified"
                   /\ events' =
                        {Ev("auto_mode_feature_complete", procs[t].key)}]_vars

\* C19 witness: mergeFeature returned success for a feature that another
\* method holds in the registry.
C19_Witness ==
  /\ result.op = "mergeFeature"
  /\ result.outcome = "returned"
  /\ features[result.key].status = "verified"
  /\ ~features[result.key].worktree
  /\ Has(result.key)

\* The awaits of setupWorktreeForFeature.
SetupPcs == {"isGitRepo", "createWorktree", "updateFeatureWorktree"}

\* C20: in a run with worktrees enabled, whatever the outcome of a step of
\* the worktree setup, the run is not aborted: it goes on with the setup or
\* to marking the feature in_progress, and a run whose setup did not
\* complete works in the project path.
C20_SetupFailureDegrades ==
  [][\A t \in Tokens :
       (/\ procs[t].kind \in {"runFeature", "startFeatureAsync"}
        /\ procs[t].pc \in SetupPcs
        /\ procs'[t] # procs[t])
       => /\ procs'[t].pc \in SetupPcs \cup {"updateStatusInProgress"}
          /\ procs'[t].isolated
             => procs[t].pc = "updateFeatureWorktree"]_vars

\* C21: the timer of a project's loop is scheduled exactly when isRunning
\* is true; start on a running loop fails with 'already running' and leaves
\* the loop states and the pending polls as they were; start on a stopped
\* loop, which has no timer, sets isRunning, stores maxConcurrency (3 when
\* none is given) and schedules the timer.
C21_LoopTwoStates ==
  /\ [](\A p \in Projects :
          projectLoops[p].interval <=> projectLoops[p].isRunning)
  /\ [][\A p \in Projects, m \in MaxConcurrencyInputs :
          start(p, m)
          => IF projectLoops[p].isRunning
             THEN /\ result'.outcome = "already_running"
                  /\ projectLoops' = projectLoops
                  /\ polls' = polls
             ELSE /\ ~projectLoops[p].interval
                  /\ result'.outcome = "returned"
                  /\ projectLoops'[p].isRunning
                  /\ projectLoops'[p].interval
                  /\ projectLoops'[p].maxConcurrency =
                       IF m = 0 THEN 3 ELSE m
                  /\ \A q \in Projects \ {p} :
                       projectLoops'[q] = projectLoops[q]]_vars

\* C21 witness: a second start on a running loop was rejected.
C21_Witness ==
  /\ result.op = "start"
  /\ result.outcome = "already_running"
  /\ projectLoops[result.key].isRunning
  /\ projectLoops[result.key].interval

\* The features a step has put into the registry.
NewlyRegistered ==
  {f \in Features : \E t \in Tokens : /\ procs[t] = NoProc
                                       /\ procs'[t].key = f
                                       /\ runningFeatures'[f].token = t}

\* The first Min(n, number of backlog features) backlog features, as listed.
FirstBacklog(n) ==
  LET backlog == SelectSeq(FeatureList,
                           LAMBDA f : features[f].status = "backlog")
  IN  {backlog[i] : i \in 1..Min(n, Len(backlog))}

\* C22: a poll step begins only on a running loop with availableSlots =
\* maxConcurrency - running count > 0; when it resumes it writes neither the
\* store nor the loop state, and either registers nothing or leaves each of
\* the first Min(availableSlots, number of backlog features) backlog
\* features, in the listed order, in the registry, having registered no
\* other feature; the runs it registers are at their in_progress write,
\* before their engine call.
C22_PollStep ==
  [][\A p \in Projects, n \in SlotCounts :
       /\ polls'[p][n] > polls[p][n]
          => /\ projectLoops'[p].isRunning
             /\ n = projectLoops'[p].maxConcurrency
                     - getRunningCountForProject(p)
       /\ PollResume(p, n)
          => /\ features' = features
             /\ context' = context
             /\ projectLoops' = projectLoops
             /\ FirstBacklog(n) = {}
                => (runningFeatures' = runningFeatures /\ procs' = procs)
             /\ \/ runningFeatures' = runningFeatures /\ procs' = procs
                \/ /\ NewlyRegistered \subseteq FirstBacklog(n)
                   /\ \A f \in FirstBacklog(n) :
                        runningFeatures'[f] # NoExec
             /\ \A t \in Tokens :
                  procs'[t] # procs[t]
                  => /\ procs'[t].kind = "startFeatureAsync"
                     /\ procs'[t].pc = "updateStatusInProgress"
                     /\ procs'[t].proj = p]_vars

\* C22 witness: a poll step with free slots for both backlog features has
\* registered both, in the listed order, and neither is marked in_progress.
C22_Witness ==
  /\ procs[1].kind = "startFeatureAsync" /\ procs[1].key = FeatureList[1]
  /\ procs[2].kind = "startFeatureAsync" /\ procs[2].key = FeatureList[2]
  /\ procs[1].pc = "updateStatusInProgress"
  /\ procs[2].pc = "updateStatusInProgress"
  /\ runningFeatures[FeatureList[1]].token = 1
  /\ runningFeatures[FeatureList[2]].token = 2
  /\ \A f \in Features : features[f].status = "backlog"

\* The methods that create an execution context.
Executions == Pipelines \cup {"analyzeProject"}

\* C23: isActive() of an execution is true exactly when that execution is
\* the registry entry of its id.
C23_IsActiveOwnEntry ==
  \A t \in Tokens :
    procs[t].kind \in Executions
    => (isActive(t) <=> runningFeatures[procs[t].key].token = t)

\* C24: the runningFeatures value stop returns is the number of registry
\* entries of the project at the time of the call.
C24_StopReturnsRunningCount ==
  result.op = "stop" => result.count = getRunningCountForProject(result.key)

\* C25: a poll step, also one whose loadFeatures throws, leaves the loop
\* state as it was (isRunning and the timer keep their values) and throws
\* nothing to a caller; and a timer tick of a running loop with free slots
\* begins a new poll step.
C25_PollFailureKeepsLoop ==
  [][\A p \in Projects :
       /\ \A n \in SlotCounts :
            PollResume(p, n)
            => /\ projectLoops' = projectLoops
               /\ result' = NoResult
               /\ events' = {}
       /\ (/\ Tick(p)
           /\ projectLoops[p].isRunning
           /\ projectLoops[p].maxConcurrency > getRunningCountForProject(p))
          => InFlight(p)' = InFlight(p) + 1]_vars

\* C25 witness: the loop is running with its timer scheduled after its
\* only poll step ended having started none of the backlog features.
C25_Witness ==
  \E p \in Projects :
    /\ projectLoops[p].isRunning
    /\ projectLoops[p].interval
    /\ InFlight(p) = 0
    /\ spawned = 0
    /\ \A f \in Features : ProjectOf(f) = p /\ features[f].status = "backlog"
    /\ \A k \in Keys : ~Has(k)

\* The steps of the catch block of a run the scheduler started.
Failing(t) ==
  /\ procs[t].kind = "startFeatureAsync"
  /\ procs'[t] # procs[t]
  /\ \/ procs'[t].pc = "catchContext"
     \/ procs[t].pc \in {"catchContext", "catchStatus"}

\* C26: the steps by which a run the scheduler started fails and is
\* finalized change only that feature's registry entry, status and
\* transcript: the entries, statuses, transcripts and methods of the other
\* ids and the loop states are as before, and nothing is thrown.
C26_FailureIsLocal ==
  [][\A t \in Tokens :
       Failing(t)
       => /\ \A k \in Keys \ {procs[t].key} :
               runningFeatures'[k] = runningFeatures[k]
          /\ \A f \in Features \ {procs[t].key} :
               features'[f] = features[f] /\ context'[f] = context[f]
          /\ \A u \in Tokens \ {t} : procs'[u] = procs[u]
          /\ projectLoops' = projectLoops
          /\ polls' = polls
          /\ result'.outcome # "threw"
          /\ procs'[t] = NoProc
             => /\ result'.outcome = "swallowed"
                /\ runningFeatures'[procs[t].key] = NoExec]_vars

\* C26 witness: a run the scheduler started has failed and is finalized
\* while the run of the other feature goes on in a running loop.
C26_Witness ==
  /\ result.op = "startFeatureAsync"
  /\ result.outcome = "swallowed"
  /\ projectLoops[ProjectOf(result.key)].isRunning
  /\ \E u \in Tokens : /\ procs[u].kind = "startFeatureAsync"
                       /\ procs[u].key # result.key
                       /\ runningFeatures[procs[u].key].token = u

\* The positions that may follow a position of runFeature and
\* startFeatureAsync: the next one of the sequence, or the catch block.
Successors(pc) ==
  CASE pc = "loadFeatures" -> {"isGitRepo", "updateStatusInProgress"}
    [] pc = "isGitRepo" -> {"createWorktree", "updateStatusInProgress"}
    [] pc = "createWorktree" ->
         {"updateFeatureWorktree", "updateStatusInProgress"}
    [] pc = "updateFeatureWorktree" -> {"updateStatusInProgress"}
    [] pc = "updateStatusInProgress" -> {"implementFeature"}
    [] pc = "implementFeature" -> {"updateStatusFinal"}
    [] pc = "catchContext" -> {"catchStatus"}
    [] OTHER -> {}

\* C27: a runFeature or startFeatureAsync is registered in the step that
\* begins it; its positions follow one another in the order setup, status
\* write in_progress with the auto_mode_feature_start event, engine call,
\* final status write with the auto_mode_feature_complete event and the
\* release, or leave that order for the catch block; the feature is marked
\* in_progress only at the in_progress write of a begun method, and the
\* engine is invoked only in the step that marked it in_progress.
C27_PipelineOrder ==
  [][\A t \in Tokens :
       /\ (procs[t] = NoProc
           /\ procs'[t].kind \in {"runFeature", "startFeatureAsync"})
          => /\ runningFeatures'[procs'[t].key].token = t
             /\ procs'[t].pc \in {"loadFeatures", "updateStatusInProgress"}
             /\ features' = features
       /\ (/\ procs[t].kind \in {"runFeature", "startFeatureAsync"}
           /\ procs'[t] # procs[t])
          => /\ procs'[t] # NoProc
                => procs'[t].pc \in Successors(procs[t].pc)
                       \cup {procs[t].pc, "catchContext"}
             /\ procs'[t] = NoProc
                => /\ procs[t].pc \in {"updateStatusFinal", "catchStatus"}
                   /\ runningFeatures'[procs[t].key] = NoExec
                   /\ procs[t].pc = "updateStatusFinal"
                      => events' = {Ev("auto_mode_feature_complete",
                                       procs[t].key)}
             /\ (procs'[t] # NoProc /\ procs'[t].pc = "implementFeature"
                 /\ procs[t].pc # "implementFeature")
                => /\ procs[t].pc = "updateStatusInProgress"
                   /\ features'[procs[t].key].status = "in_progress"
                   /\ events' = {Ev("auto_mode_feature_start", procs[t].key)}
             /\ (/\ features[procs[t].key].status # "in_progress"
                 /\ features'[procs[t].key].status = "in_progress")
                => procs[t].pc = "updateStatusInProgress"]_vars

\* C27 witness: a runFeature with a worktree went through every step and
\* returned with the feature verified and its entry released.
C27_Witness ==
  /\ result.op = "runFeature"
  /\ result.outcome = "returned"
  /\ result.passes
  /\ features[result.key].worktree
  /\ features[result.key].status = "verified"
  /\ ~Has(result.key)
  /\ Ev("auto_mode_feature_complete", result.key) \in events

\* C28: the release at the end of a method removes only the entry that the
\* method itself inserted: when the entry under its id belongs to a later
\* call, the release leaves that entry in the registry.
C28_ReleaseOnlyOwnExecution ==
  [][\A t \in Tokens :
       (/\ procs[t] # NoProc
        /\ procs'[t] = NoProc
        /\ Has(procs[t].key)
        /\ runningFeatures[procs[t].key].token # t)
       => runningFeatures'[procs[t].key] = runningFeatures[procs[t].key]]_vars

\* C29: whenever the persisted status of a feature is in_progress, an
\* execution for its id is in the registry.
C29_InProgressIsRegistered ==
  \A f \in Features : features[f].status = "in_progress" => Has(f)

(* ------------------------ the scheduler alone ------------------------- *)

\* A poll step whose loadFeatures returned the features of the store.
PollLoaded(projectPath, availableSlots) ==
  /\ PollResume(projectPath, availableSlots)
  /\ StartBacklog(projectPath, availableSlots)

\* A step of startFeatureAsync whose awaited call returned without throwing.
StartedStep(t) ==
  /\ procs[t].kind = "startFeatureAsync"
  /\ MarkInProgress(t) \/ ImplementFeature(t) \/ UpdateStatusFinal(t)
  /\ procs'[t].pc # "catchContext"

\* The loops are started and never stopped, the timers tick, and every
\* awaited call of the poll step and of startFeatureAsync returns.
SchedulerNext ==
  \/ \E p \in Projects, m \in MaxConcurrencyInputs : start(p, m)
  \/ \E p \in Projects : Tick(p)
  \/ \E p \in Projects, n \in SlotCounts : PollLoaded(p, n)
  \/ \E t \in Tokens : StartedStep(t)

\* setInterval fires again and again, and the event loop runs every
\* continuation whose awaited call has settled.
SchedulerSpec ==
  /\ Init
  /\ [][SchedulerNext]_vars
  /\ \A p \in Projects : WF_vars(Tick(p))
  /\ \A p \in Projects : WF_vars(\E n \in SlotCounts : PollLoaded(p, n))
  /\ \A t \in Tokens : WF_vars(StartedStep(t))

\* The scheduler has started the feature: startFeatureAsync registered it
\* and wrote in_progress, and now awaits the engine.
StartedByScheduler(f) ==
  /\ features[f].status = "in_progress"
  /\ Has(f)
  /\ procs[runningFeatures[f].token].kind = "startFeatureAsync"
  /\ procs[runningFeatures[f].token].pc = "implementFeature"

\* C30: while the loop of its project is running, a feature whose status
\* is backlog is eventually started by the scheduler, registered and marked
\* in_progress, whatever is listed before it.
C30_BacklogEventuallyStarted ==
  \A f \in Features :
    (features[f].status = "backlog" /\ projectLoops[ProjectOf(f)].isRunning)
      ~> StartedByScheduler(f)

\* C30 witness: with one slot, the feature listed second was started by the
\* scheduler after the one listed first had run to its end.
C30_Witness ==
  /\ projectLoops["p1"].isRunning
  /\ projectLoops["p1"].maxConcurrency = 1
  /\ features["f1"].status \in {"verified", "waiting_approval"}
  /\ ~Has("f1")
  /\ StartedByScheduler("f2")

====
